---- MODULE Spec2Model ----
(***************************************************************************)
(* Supply-chain analytics dashboards (Streamlit + pandas + DuckDB).        *)
(*                                                                         *)
(*   interactive_dashboard_enhanced.py   the "interactive" dashboard       *)
(*   enhanced_supply_chain_dashboard.py  the "basic" dashboard             *)
(*                                                                         *)
(* A batch (pandas DataFrame) is a sequence of records, one per row, in    *)
(* row order.  Column names keep the source's names with '_' for blanks.   *)
(*                                                                         *)
(* Numbers.  Raw columns are integers: money in whole units, counts and    *)
(* days as they are, and 'Defect rates' in thousandths (1.0 is 1000), so   *)
(* that 0.999 and 5.001 are representable.  Every float the code computes  *)
(* by division is an extended rational <<n, d>>: d > 0 is the fraction n/d *)
(* in lowest terms, <<1,0>> is +inf, <<-1,0>> is -inf and <<0,0>> is NaN,  *)
(* which is what IEEE-754 / pandas produce for x/0 and 0/0.  Rounding of   *)
(* float64 is not modelled.                                                *)
(***************************************************************************)
EXTENDS Integers, Sequences, FiniteSets, TLC

\* ---------------------------------------------------------------- bounds
\* Largest number of rows in the CSV file.
MaxRows == 2
\* Largest number of server restarts followed.
MaxRestarts == 1
\* Largest number of script runs followed in one session.
MaxRuns == 3

\* ------------------------------------------------- float64 as rationals
Abs(x) == IF x < 0 THEN -x ELSE x

Sign(x) == IF x > 0 THEN 1 ELSE IF x < 0 THEN -1 ELSE 0

RECURSIVE GCD(_, _)
GCD(a, b) == IF b = 0 THEN a ELSE GCD(b, a % b)

\* <<n, d>> in canonical form (d >= 0, lowest terms; d = 0 keeps the sign).
Norm(n, d) ==
    IF d = 0 THEN <<Sign(n), 0>>
    ELSE LET s == IF d < 0 THEN -1 ELSE 1
             g == GCD(Abs(n), Abs(d))
         IN  <<(s * n) \div g, (s * d) \div g>>

NaN == <<0, 0>>
Inf == <<1, 0>>
F(i) == <<i, 1>>

IsNaN(q) == q = NaN
IsInf(q) == q[2] = 0 /\ q[1] # 0
IsFinite(q) == q[2] > 0

\* float division x / y (pandas Series true division: no exception on y = 0).
FDiv(p, q) == Norm(p[1] * q[2], p[2] * q[1])

FMul(p, q) == Norm(p[1] * q[1], p[2] * q[2])

\* the sum over the least common denominator
FAdd(p, q) ==
    IF IsInf(p) /\ IsInf(q) THEN (IF p = q THEN p ELSE NaN)
    ELSE IF ~IsFinite(p) THEN p
    ELSE IF ~IsFinite(q) THEN q
    ELSE LET g == GCD(p[2], q[2])
         IN  Norm(p[1] * (q[2] \div g) + q[1] * (p[2] \div g), (p[2] \div g) * q[2])

FNeg(p) == <<-p[1], p[2]>>

FSub(p, q) == FAdd(p, FNeg(q))

\* p < q on finite values
FLess(p, q) == p[1] * q[2] < q[1] * p[2]

\* ------------------------------------------------------------ the data
ProductTypes == {"A", "B"}
Locations == {"X", "Y"}
RiskLabels == <<"Low", "Medium", "High", "Critical">>
AllRiskLevels == {"Low", "Medium", "High", "Critical"}
\* missing categorical value (pandas NaN in a Categorical column)
NoRisk == "NaN"

Row(pt, loc, sup, mode, rev, cost, sold, stock, lead, defect, ship, orders, avail) ==
    [Product_type |-> pt, Location |-> loc, Supplier_name |-> sup,
     Transportation_modes |-> mode, Revenue_generated |-> rev,
     Manufacturing_costs |-> cost, Number_of_products_sold |-> sold,
     Stock_levels |-> stock, Lead_times |-> lead, Defect_rates |-> defect,
     Shipping_costs |-> ship, Order_quantities |-> orders, Availability |-> avail]

\* Rows a CSV file may hold.  Together they cover: zero and non-zero
\* denominators (Manufacturing costs, Stock levels), zero and non-zero
\* numerators, an all-zero row, every bin edge of Risk_Level and its
\* neighbours, and groups that tie on a sum.
RowPool ==
    { Row("A", "X", "S1", "Road", 100,  50, 10,  5, 10,  999, 2, 10, 50),
      Row("A", "Y", "S2", "Air",  200,  50, 10,  0, 20, 1000, 3, 20, 60),
      Row("B", "X", "S1", "Air",  100,   0, 10,  5, 10, 2999, 2, 10, 50),
      Row("B", "Y", "S2", "Road",   0,   0,  0,  0,  0,    0, 0,  0,  0),
      Row("A", "X", "S2", "Road", 300, 100, 20, 10, 30, 3000, 4, 30, 70),
      Row("B", "X", "S1", "Road", 200, 100,  0,  5,  0, 4999, 3, 20, 60),
      Row("A", "Y", "S1", "Air",  100,  50, 10,  5, 10, 5000, 2, 10, 50),
      Row("B", "Y", "S2", "Air",   50,  50,  5,  5, 20, 5001, 1,  5, 40) }

\* a batch of three rows with product types A, A, B and revenues 100,
\* 200, 50
ProductExample ==
    << Row("A", "X", "S1", "Road", 100,  50, 10,  5, 10,  999, 2, 10, 50),
       Row("A", "Y", "S2", "Air",  200,  50, 10,  0, 20, 1000, 3, 20, 60),
       Row("B", "Y", "S2", "Air",   50,  50,  5,  5, 20, 5001, 1,  5, 40) >>

\* The file the served dashboards are followed on: two product types
\* that tie on revenue, two locations, a row that holds the maxima and a
\* row with a defect rate of 0.
FlowFile ==
    << Row("A", "X", "S1", "Road", 100,  50, 10,  5, 10,  999, 2, 10, 50),
       Row("B", "X", "S1", "Air",  100,   0, 10,  5, 10, 2999, 2, 10, 50),
       Row("B", "Y", "S2", "Road",   0,   0,  0,  0,  0,    0, 0,  0,  0),
       Row("A", "X", "S2", "Road", 300, 100, 20, 10, 30, 3000, 4, 30, 70) >>

\* the rows of a file at the positions in keep, in the file's order
RECURSIVE Pick(_, _, _)
Pick(file, keep, i) ==
    IF i > Len(file) THEN <<>>
    ELSE (IF i \in keep THEN <<file[i]>> ELSE <<>>) \o Pick(file, keep, i + 1)

\* every excerpt of at most n rows of a file
Excerpts(file, n) ==
    {Pick(file, keep, 1) : keep \in {k \in SUBSET (1..Len(file)) : Cardinality(k) <= n}}

\* the columns of a non-empty frame
Columns(df) == IF df = <<>> THEN {} ELSE DOMAIN df[1]

\* a file whose header lacks one column
DropColumn(df, col) ==
    [i \in 1..Len(df) |-> [c \in (DOMAIN df[i]) \ {col} |-> df[i][c]]]

\* The columns a file is followed without: one that both enrichers read,
\* one that only the interactive enricher reads, and two that only the
\* grouped queries and charts read.
DroppedColumns == {"Manufacturing_costs", "Defect_rates", "Supplier_name",
                   "Transportation_modes"}

\* the files with one of these columns missing
Headless(batches) ==
    {DropColumn(b, col) : b \in batches \ {<<>>}, col \in DroppedColumns}

\* every batch of at most n rows over a pool
RECURSIVE Batches(_, _)
Batches(pool, n) ==
    IF n = 0 THEN {<<>>}
    ELSE LET shorter == Batches(pool, n - 1)
         IN  shorter \cup {Append(b, r) : b \in {s \in shorter : Len(s) = n - 1}, r \in pool}

\* ------------------------------------------------------ pandas helpers
Range(s) == {s[i] : i \in 1..Len(s)}

\* Series.max() over a non-empty integer column
MaxOf(S) == CHOOSE m \in S : \A x \in S : x <= m
MinOf(S) == CHOOSE m \in S : \A x \in S : m <= x

RECURSIVE SumSeq(_)
SumSeq(s) == IF s = <<>> THEN 0 ELSE s[1] + SumSeq(Tail(s))

RECURSIVE FSumSeq(_)
FSumSeq(s) == IF s = <<>> THEN F(0) ELSE FAdd(s[1], FSumSeq(Tail(s)))

\* pd.cut(x, bins=[0, 1, 3, 5, inf], labels=[...]) with the default
\* right=True, include_lowest=False: bin i is (bins[i], bins[i+1]], and a
\* value in no bin is NaN.  Defect rates are in thousandths.
RiskBins == <<0, 1000, 3000, 5000>>

\* pd.cut called with right=False: bins closed on the left
pd_cut_right_false(x) ==
    IF x >= RiskBins[1] /\ x < RiskBins[2] THEN RiskLabels[1]
    ELSE IF x >= RiskBins[2] /\ x < RiskBins[3] THEN RiskLabels[2]
    ELSE IF x >= RiskBins[3] /\ x < RiskBins[4] THEN RiskLabels[3]
    ELSE IF x >= RiskBins[4] THEN RiskLabels[4]
    ELSE NoRisk

pd_cut(x) ==
    IF x > RiskBins[1] /\ x <= RiskBins[2] THEN RiskLabels[1]
    ELSE IF x > RiskBins[2] /\ x <= RiskBins[3] THEN RiskLabels[2]
    ELSE IF x > RiskBins[3] /\ x <= RiskBins[4] THEN RiskLabels[3]
    ELSE IF x > RiskBins[4] THEN RiskLabels[4]
    ELSE NoRisk

\* np.where(cond, x, y), element by element
np_where(cond, x, y) == IF cond THEN x ELSE y

\* ------------------------------------------- enrichment (interactive)
\* What np.random.choice(['Up', 'Down', 'Stable']) and
\* np.random.uniform(0.1, 1.0) return for one row: a sample of the joint
\* outcomes, the strength in tenths.
TrendOutcomes == <<[dir |-> "Up", strength |-> 1],
                   [dir |-> "Down", strength |-> 9],
                   [dir |-> "Stable", strength |-> 9]>>

\* The two generators fill a column of n rows in one call each: a sample
\* of the columns they can return, in which neighbouring rows differ and
\* every row takes every outcome.
TrendDraws(n) ==
    {[i \in 1..n |-> TrendOutcomes[((i + k) % Len(TrendOutcomes)) + 1]] :
        k \in 1..Len(TrendOutcomes)}

Profit_Margin(r) == r.Revenue_generated - r.Manufacturing_costs

Total_Shipping_Cost(r) == r.Number_of_products_sold * r.Shipping_costs

\* the ratio without the np.where guard
Efficiency_Ratio_unguarded(r) ==
    FDiv(F(r.Revenue_generated), F(r.Manufacturing_costs))

Efficiency_Ratio(r) ==
    np_where(r.Manufacturing_costs > 0,
             FDiv(F(r.Revenue_generated), F(r.Manufacturing_costs)),
             F(0))

Inventory_Turnover(r) ==
    np_where(r.Stock_levels > 0,
             FDiv(F(r.Number_of_products_sold), F(r.Stock_levels)),
             F(0))

\* the three column maxima of the batch handed to the enricher
\* the three values of the first row in place of the column maxima
ColumnMaxima_first_row(df) ==
    [Revenue_generated |-> df[1].Revenue_generated,
     Lead_times |-> df[1].Lead_times,
     Defect_rates |-> df[1].Defect_rates]

ColumnMaxima(df) ==
    [Revenue_generated |-> MaxOf({df[i].Revenue_generated : i \in 1..Len(df)}),
     Lead_times |-> MaxOf({df[i].Lead_times : i \in 1..Len(df)}),
     Defect_rates |-> MaxOf({df[i].Defect_rates : i \in 1..Len(df)})]

ScoreAgainst(r, mx) ==
    FMul(FAdd(FAdd(FMul(FDiv(F(r.Revenue_generated), F(mx.Revenue_generated)), <<2, 5>>),
                   FMul(FSub(F(1), FDiv(F(r.Lead_times), F(mx.Lead_times))), <<3, 10>>)),
              FMul(FSub(F(1), FDiv(F(r.Defect_rates), F(mx.Defect_rates))), <<3, 10>>)),
         F(100))

\* the revenue term relative to a fixed revenue of 1000, not to the
\* column maximum
Performance_Score_fixed_scale(r, mx) ==
    ScoreAgainst(r, [mx EXCEPT !.Revenue_generated = 1000])

Performance_Score(r, mx) == ScoreAgainst(r, mx)

Risk_Level(r) == pd_cut(r.Defect_rates)

\* one row of the copy, with the columns of lines 377-404
MetricRow(r, mx) ==
    r @@ [Profit_Margin |-> Profit_Margin(r),
          Total_Shipping_Cost |-> Total_Shipping_Cost(r),
          Efficiency_Ratio |-> Efficiency_Ratio(r),
          Inventory_Turnover |-> Inventory_Turnover(r),
          Performance_Score |-> Performance_Score(r, mx),
          Risk_Level |-> Risk_Level(r)]

\* the enrichment followed by a dropna(): rows with a missing value go
metric_columns_dropna(df) ==
    LET mx == ColumnMaxima(df)
        Complete(r) == r.Risk_Level # NoRisk /\ ~IsNaN(r.Performance_Score)
    IN  SelectSeq([i \in 1..Len(df) |-> MetricRow(df[i], mx)], Complete)

\* lines 374-404: the copy of the batch with the computed columns
metric_columns(df) ==
    LET mx == ColumnMaxima(df)
    IN  [i \in 1..Len(df) |-> MetricRow(df[i], mx)]

\* a random draw assigned to the wrong column
trend_columns_clobber(enhanced_df, draws) ==
    [i \in 1..Len(enhanced_df) |->
        [enhanced_df[i] EXCEPT !.Profit_Margin = draws[i].strength]
            @@ [Trend_Direction |-> draws[i].dir,
                Trend_Strength |-> draws[i].strength]]

\* lines 406-408: draws[i] is what the two random generators return for row i
trend_columns(enhanced_df, draws) ==
    [i \in 1..Len(enhanced_df) |->
        enhanced_df[i] @@ [Trend_Direction |-> draws[i].dir,
                           Trend_Strength |-> draws[i].strength]]

calculate_advanced_metrics(df, draws) == trend_columns(metric_columns(df), draws)

\* ------------------------------------------------- enrichment (basic)
DerivedColumns(r) ==
    [Profit_Margin |-> r.Revenue_generated - r.Manufacturing_costs,
     Total_Shipping_Cost |-> r.Number_of_products_sold * r.Shipping_costs,
     Efficiency_Ratio |-> FDiv(F(r.Revenue_generated), F(r.Manufacturing_costs)),
     Inventory_Turnover |-> FDiv(F(r.Number_of_products_sold), F(r.Stock_levels))]

calculate_derived_metrics(df) ==
    [i \in 1..Len(df) |-> df[i] @@ DerivedColumns(df[i])]

\* the raw columns of an enriched row
RawColumns == {"Product_type", "Location", "Supplier_name", "Transportation_modes",
               "Revenue_generated", "Manufacturing_costs", "Number_of_products_sold",
               "Stock_levels", "Lead_times", "Defect_rates", "Shipping_costs",
               "Order_quantities", "Availability"}

RawOf(r) == [c \in RawColumns |-> r[c]]

\* ------------------------------------------------- SQL aggregation
\* The DuckDB queries, by what SQL defines: GROUP BY makes one group per
\* distinct key value, an aggregate ranges over the rows of its group,
\* ORDER BY sorts the groups by the sort column and leaves the order of
\* groups with equal sort values open.
GroupKeys(df, col) == {df[i][col] : i \in 1..Len(df)}

GroupMembers(df, col, k) == SelectSeq(df, LAMBDA r : r[col] = k)

Column(rows, col) == [i \in 1..Len(rows) |-> rows[i][col]]

\* COUNT(DISTINCT *) in place of COUNT(*)
COUNT_DISTINCT(rows) == Cardinality(Range(rows))

\* COUNT(*)
COUNT(rows) == Len(rows)

\* SUM(col) over a non-empty group of an integer column
SUM(rows, col) == SumSeq(Column(rows, col))

\* AVG(col) of an integer column and of a float column; NaN is a value
\* to DuckDB and makes the average NaN
AVG(rows, col) == FDiv(F(SUM(rows, col)), F(Len(rows)))

AVG_float(rows, col) == FDiv(FSumSeq(Column(rows, col)), F(Len(rows)))

\* the sequences that list every element of S once
Orderings(S) ==
    {s \in [1..Cardinality(S) -> S] : \A i, j \in 1..Cardinality(S) : i # j => s[i] # s[j]}

\* ORDER BY col DESC / ASC on a float sort value: every order the engine
\* may return
ORDER_BY_DESC(groups, col) ==
    {s \in Orderings(groups) :
        \A i, j \in 1..Len(s) : i < j => ~FLess(s[i][col], s[j][col])}

ORDER_BY_ASC(groups, col) ==
    {s \in Orderings(groups) :
        \A i, j \in 1..Len(s) : i < j => ~FLess(s[j][col], s[i][col])}

\* ------------------------------------- EnhancedDataAnalyzer (interactive)
\* Series.sum() and Series.mean(); mean skips NaN and is NaN when nothing
\* is left
pd_sum(df, col) == SumSeq(Column(df, col))

pd_mean(df, col) == FDiv(F(pd_sum(df, col)), F(Len(df)))

pd_mean_float(df, col) ==
    LET present == SelectSeq(Column(df, col), LAMBDA v : ~IsNaN(v))
    IN  FDiv(FSumSeq(present), F(Len(present)))

\* the three np.random.choice(['up', 'down', 'stable']) of one call: two
\* of the joint outcomes
MetricTrendDraws == {[revenue |-> "up", orders |-> "stable", lead_time |-> "up"],
                     [revenue |-> "stable", orders |-> "down", lead_time |-> "down"]}

\* lines 705-714: the sums and means of the analyzer's frame
basic_and_advanced_metrics(df) ==
    [total_revenue |-> F(pd_sum(df, "Revenue_generated")),
     total_orders |-> pd_sum(df, "Order_quantities"),
     avg_lead_time |-> pd_mean(df, "Lead_times"),
     total_availability |-> F(pd_sum(df, "Availability")),
     avg_profit_margin |-> pd_mean(df, "Profit_Margin"),
     efficiency_score |-> pd_mean_float(df, "Efficiency_Ratio"),
     performance_score |-> pd_mean_float(df, "Performance_Score")]

\* lines 716-721: the simulated trends are added and the dict is returned
with_trends(numbers, draw) ==
    [total_revenue |-> numbers.total_revenue,
     total_orders |-> numbers.total_orders,
     avg_lead_time |-> numbers.avg_lead_time,
     total_availability |-> numbers.total_availability,
     avg_profit_margin |-> numbers.avg_profit_margin,
     efficiency_score |-> numbers.efficiency_score,
     performance_score |-> numbers.performance_score,
     revenue_trend |-> draw.revenue,
     orders_trend |-> draw.orders,
     lead_time_trend |-> draw.lead_time]

get_performance_metrics(df, draw) ==
    with_trends(basic_and_advanced_metrics(df), draw)

product_performance(df) ==
    ORDER_BY_DESC(
        {LET g == GroupMembers(df, "Product_type", k) IN
         [Product_type |-> k,
          total_revenue |-> F(SUM(g, "Revenue_generated")),
          avg_performance |-> AVG_float(g, "Performance_Score"),
          product_count |-> COUNT(g),
          avg_defect_rate |-> AVG(g, "Defect_rates")] : k \in GroupKeys(df, "Product_type")},
        "total_revenue")

\* the location query with ORDER BY total_revenue DESC
location_efficiency_by_revenue(df) ==
    ORDER_BY_DESC(
        {LET g == GroupMembers(df, "Location", k) IN
         [Location |-> k,
          total_revenue |-> F(SUM(g, "Revenue_generated")),
          avg_lead_time |-> AVG(g, "Lead_times"),
          avg_efficiency |-> AVG_float(g, "Efficiency_Ratio"),
          total_costs |-> F(SUM(g, "Manufacturing_costs"))] : k \in GroupKeys(df, "Location")},
        "total_revenue")

location_efficiency(df) ==
    ORDER_BY_DESC(
        {LET g == GroupMembers(df, "Location", k) IN
         [Location |-> k,
          total_revenue |-> F(SUM(g, "Revenue_generated")),
          avg_lead_time |-> AVG(g, "Lead_times"),
          avg_efficiency |-> AVG_float(g, "Efficiency_Ratio"),
          total_costs |-> F(SUM(g, "Manufacturing_costs"))] : k \in GroupKeys(df, "Location")},
        "avg_efficiency")

supplier_risk(df) ==
    ORDER_BY_DESC(
        {LET g == GroupMembers(df, "Supplier_name", k) IN
         [Supplier_name |-> k,
          avg_defect_rate |-> AVG(g, "Defect_rates"),
          total_costs |-> F(SUM(g, "Manufacturing_costs")),
          product_count |-> COUNT(g),
          avg_lead_time |-> AVG(g, "Lead_times")] : k \in GroupKeys(df, "Supplier_name")},
        "avg_defect_rate")

transportation_analysis(df) ==
    ORDER_BY_ASC(
        {LET g == GroupMembers(df, "Transportation_modes", k) IN
         [Transportation_modes |-> k,
          avg_shipping_cost |-> AVG(g, "Shipping_costs"),
          avg_lead_time |-> AVG(g, "Lead_times"),
          total_orders |-> SUM(g, "Order_quantities"),
          usage_count |-> COUNT(g)] : k \in GroupKeys(df, "Transportation_modes")},
        "avg_shipping_cost")

\* every dictionary get_advanced_analytics may return
get_advanced_analytics(df) ==
    [product_performance : product_performance(df),
     location_efficiency : location_efficiency(df),
     supplier_risk : supplier_risk(df),
     transportation_analysis : transportation_analysis(df)]

\* ------------------------------------------------ DataAnalyzer (basic)
\* the query with SUM("Manufacturing costs")
get_total_revenue_of_costs(df) == F(pd_sum(df, "Manufacturing_costs"))

\* fetchone()[0] of an aggregate over the whole table: NULL on an empty
\* table, and 'x if result[0] else 0' turns NULL and 0 into 0
get_total_revenue(df) == F(pd_sum(df, "Revenue_generated"))

get_total_orders(df) == pd_sum(df, "Order_quantities")

\* the average without the 'if result[0] else 0.0': NaN on an empty table
get_average_lead_time_unguarded(df) == FDiv(F(pd_sum(df, "Lead_times")), F(Len(df)))

get_average_lead_time(df) ==
    IF df = <<>> THEN F(0) ELSE AVG(df, "Lead_times")

\* the query with ORDER BY total_revenue ASC
get_revenue_by_product_type_asc(df) ==
    ORDER_BY_ASC(
        {LET g == GroupMembers(df, "Product_type", k) IN
         [Product_type |-> k,
          total_revenue |-> F(SUM(g, "Revenue_generated")),
          product_count |-> COUNT(g)] : k \in GroupKeys(df, "Product_type")},
        "total_revenue")

get_revenue_by_product_type(df) ==
    ORDER_BY_DESC(
        {LET g == GroupMembers(df, "Product_type", k) IN
         [Product_type |-> k,
          total_revenue |-> F(SUM(g, "Revenue_generated")),
          product_count |-> COUNT(g)] : k \in GroupKeys(df, "Product_type")},
        "total_revenue")

get_location_performance(df) ==
    ORDER_BY_DESC(
        {LET g == GroupMembers(df, "Location", k) IN
         [Location |-> k,
          total_revenue |-> F(SUM(g, "Revenue_generated")),
          total_costs |-> F(SUM(g, "Manufacturing_costs")),
          avg_lead_time |-> AVG(g, "Lead_times"),
          total_orders |-> SUM(g, "Order_quantities")] : k \in GroupKeys(df, "Location")},
        "total_revenue")

\* the supplier query with ORDER BY avg_defect_rate DESC
get_supplier_analysis_by_defect_rate(df) ==
    ORDER_BY_DESC(
        {LET g == GroupMembers(df, "Supplier_name", k) IN
         [Supplier_name |-> k,
          total_costs |-> F(SUM(g, "Manufacturing_costs")),
          avg_defect_rate |-> AVG(g, "Defect_rates"),
          product_count |-> COUNT(g)] : k \in GroupKeys(df, "Supplier_name")},
        "avg_defect_rate")

get_supplier_analysis(df) ==
    ORDER_BY_DESC(
        {LET g == GroupMembers(df, "Supplier_name", k) IN
         [Supplier_name |-> k,
          total_costs |-> F(SUM(g, "Manufacturing_costs")),
          avg_defect_rate |-> AVG(g, "Defect_rates"),
          product_count |-> COUNT(g)] : k \in GroupKeys(df, "Supplier_name")},
        "total_costs")

\* ------------------------------------------------------- exceptions
\* df['col'] on a frame without the column raises KeyError
KeyError(columns, needed) == ~(needed \subseteq columns)

\* a query that names a column the registered frame lacks is rejected by
\* DuckDB's binder before any row is read
BinderException(columns, needed) == ~(needed \subseteq columns)

\* the columns calculate_advanced_metrics reads of its argument
AdvancedMetricsColumns ==
    {"Revenue_generated", "Manufacturing_costs", "Number_of_products_sold",
     "Shipping_costs", "Stock_levels", "Lead_times", "Defect_rates"}

\* the columns calculate_derived_metrics reads of its argument
DerivedMetricsColumns ==
    {"Revenue_generated", "Manufacturing_costs", "Number_of_products_sold",
     "Shipping_costs", "Stock_levels"}

\* the columns get_performance_metrics reads
PerformanceMetricsColumns ==
    {"Revenue_generated", "Order_quantities", "Lead_times", "Availability",
     "Profit_Margin", "Efficiency_Ratio", "Performance_Score"}

\* the columns the four queries of get_advanced_analytics name
AdvancedAnalyticsColumns ==
    {"Product_type", "Revenue_generated", "Performance_Score", "Defect_rates",
     "Location", "Lead_times", "Efficiency_Ratio", "Manufacturing_costs",
     "Supplier_name", "Transportation_modes", "Shipping_costs", "Order_quantities"}

\* the columns the queries of DataAnalyzer name
RevenueByProductColumns == {"Product_type", "Revenue_generated"}

LocationPerformanceColumns ==
    {"Location", "Revenue_generated", "Manufacturing_costs", "Lead_times",
     "Order_quantities"}

SupplierAnalysisColumns == {"Supplier_name", "Manufacturing_costs", "Defect_rates"}

\* the columns of the groupby that follows the supplier chart
TransportOrdersColumns == {"Transportation_modes", "Order_quantities"}

\* the except clause of main's try block without its st.error
initialization_error_silent(msgs) == msgs

\* the except clause of main's try block: the failure is reported and
\* main returns
initialization_error(msgs) == msgs \o <<"Error initializing dashboard">>

\* enhanced_df = df with no copy: the columns are assigned on the
\* caller's frame
frame_after_enrichment_aliased(df, enhanced_df) == enhanced_df

\* enhanced_df = df.copy(): the columns are assigned on the copy and the
\* caller's frame stays as it was
frame_after_enrichment(df, enhanced_df) == df

\* ------------------------------------------------------------- state
VARIABLES
    app,            \* the script being served: "interactive" or "basic"
    csv,            \* supply_chain_data.csv: [readable, rows]
    pc,             \* position of the current script run
    load_cache,     \* st.cache_data memo of load_supply_chain_data
    metrics_cache,  \* st.cache_data memo of calculate_*_metrics, by argument
    raw_data,       \* main: raw_data
    processed_data, \* main: processed_data
    filtered_data,  \* main: filtered_data
    analyzer,       \* main: the frame the analyzer refers to (self.df)
    session_state,  \* st.session_state: key -> value
    widgets,        \* browser-side value of the widgets that keep one
    insights,       \* metrics shown by create_dynamic_insights_section
    metrics,        \* metrics shown by the dashboard layout
    analytics,      \* grouped results shown by the dashboard layout
    errors,         \* st.error messages of the current run
    runs,           \* script runs of this session so far
    restarts,       \* server restarts so far
    last_enriched,  \* history: what calculate_advanced_metrics last computed
    db_connections, \* the DuckDB databases opened: table name -> frame, each
    threads,        \* analyzers built side by side: position, self.df,
                    \* self.db_connection, last query result
    animationQueue, \* INTERACTIVE_JS: let animationQueue = []
    isAnimating,    \* INTERACTIVE_JS: let isAnimating = false
    promises,       \* the animations whose execute() promise is pending
    timeout,        \* setTimeout(processAnimationQueue, ...) is armed
    executed        \* history: the animations whose execute() was called

vars == <<app, csv, pc, load_cache, metrics_cache, raw_data, processed_data,
          filtered_data, analyzer, session_state, widgets, insights, metrics,
          analytics, errors, runs, restarts, last_enriched, db_connections,
          threads, animationQueue, isAnimating, promises, timeout, executed>>

\* the state of the page's script
script == <<animationQueue, isAnimating, promises, timeout, executed>>

\* lines 217-218: the script as loaded
ScriptLoaded ==
    /\ animationQueue = <<>>
    /\ isAnimating = FALSE
    /\ promises = {}
    /\ timeout = FALSE
    /\ executed = <<>>

\* what a run has computed and put on the page
page == <<raw_data, processed_data, filtered_data, analyzer, insights, metrics,
          analytics, errors>>

\* the frame main's analyzer refers to (self.df), which its constructor
\* registered as 'supply_data' with the connection it opened
AnalyzerDf ==
    IF analyzer = "processed_data" THEN processed_data
    ELSE IF analyzer = "filtered_data" THEN filtered_data
    ELSE <<>>

\* -------------------------------------------------------- data loading
\* the loader whose except clauses return pd.DataFrame() without st.error
load_supply_chain_data_unreported(file, version) ==
    IF ~file.readable THEN [df |-> <<>>, msgs |-> <<>>]
    ELSE IF file.rows = <<>> /\ version = "interactive"
         THEN [df |-> <<>>, msgs |-> <<"Dataset is empty">>]
    ELSE [df |-> file.rows, msgs |-> <<>>]

\* pd.read_csv raises when the file cannot be read; both versions catch
\* it, report it and return pd.DataFrame().  The interactive version also
\* reports an empty dataset.  The result is the frame and the st.error
\* messages, which st.cache_data replays on a cache hit.
load_supply_chain_data(file, version) ==
    IF ~file.readable THEN [df |-> <<>>, msgs |-> <<"Error loading data">>]
    ELSE IF file.rows = <<>> /\ version = "interactive"
         THEN [df |-> <<>>, msgs |-> <<"Dataset is empty">>]
    ELSE [df |-> file.rows, msgs |-> <<>>]

\* a call through the st.cache_data wrapper (one file path, so one entry)
CachedLoad == IF load_cache # <<>> THEN load_cache[1]
              ELSE load_supply_chain_data(csv, app)

\* the defaults assigned without the 'not in st.session_state' tests
SessionDefaults_overwrite(ss) ==
    [selected_product_type |-> "All", selected_location |-> "All",
     animation_enabled |-> TRUE] @@ ss

\* lines 40-48: a key is set only when absent
SessionDefaults(ss) ==
    ss @@ [selected_product_type |-> "All", selected_location |-> "All",
           animation_enabled |-> TRUE]

\* ------------------------------------------------ interactive: filters
Revenues(data) == {data[i].Revenue_generated : i \in 1..Len(data)}
LeadTimes(data) == {data[i].Lead_times : i \in 1..Len(data)}

\* the options of the two select boxes: 'All', then the sorted values
ProductTypeOptions(data) == {"All"} \cup GroupKeys(data, "Product_type")
LocationOptions(data) == {"All"} \cup GroupKeys(data, "Location")

\* the defaults of the sliders and of the multiselect (lines 890-915)
DefaultRevenueRange(data) == <<MinOf(Revenues(data)), MaxOf(Revenues(data))>>
DefaultLeadTimeMax(data) == MaxOf(LeadTimes(data))

\* What the sidebar widgets return in this run.  The toggle and the select
\* boxes are created with the session value as their default, so they
\* return it unless the user has just changed them; the sliders and the
\* multiselect keep their own value in the browser.
WidgetValues(data, ss, w) ==
    [animation_enabled |-> ss.animation_enabled,
     selected_product_type |-> ss.selected_product_type,
     selected_location |-> ss.selected_location,
     revenue_range |-> IF "revenue_range" \in DOMAIN w THEN w.revenue_range
                       ELSE DefaultRevenueRange(data),
     lead_time_max |-> IF "lead_time_max" \in DOMAIN w THEN w.lead_time_max
                       ELSE DefaultLeadTimeMax(data),
     risk_levels |-> IF "risk_levels" \in DOMAIN w THEN w.risk_levels
                     ELSE AllRiskLevels,
     reset |-> FALSE]

\* The selections the multiselect is sampled at: nothing selected, one
\* level selected, one level removed from the default.
RiskLevelSelections ==
    {{}} \cup {{l} : l \in AllRiskLevels}
         \cup {AllRiskLevels \ {l} : l \in AllRiskLevels}

\* The interaction that caused this run changed one widget: the slider
\* positions are sampled at the revenues and lead times of the data, the
\* multiselect at RiskLevelSelections (a run that is interrupted by the
\* next click never gets to the filters), the button is clicked.
UserInputs(data, cur) ==
    {[cur EXCEPT !.animation_enabled = ~@]}
    \cup {[cur EXCEPT !.selected_product_type = v] : v \in ProductTypeOptions(data)}
    \cup {[cur EXCEPT !.selected_location = v] : v \in LocationOptions(data)}
    \cup {[cur EXCEPT !.revenue_range = <<lo, hi>>] :
             lo \in Revenues(data), hi \in Revenues(data)}
    \cup {[cur EXCEPT !.lead_time_max = v] : v \in LeadTimes(data)}
    \cup {[cur EXCEPT !.risk_levels = S] : S \in RiskLevelSelections}
    \cup {[cur EXCEPT !.reset = TRUE]}

\* the filters followed by a new scoring of the rows that are left
apply_filters_rescored(data, ss) ==
    LET Keep(r) ==
            /\ ss.selected_product_type # "All" => r.Product_type = ss.selected_product_type
            /\ ss.selected_location # "All" => r.Location = ss.selected_location
            /\ "revenue_range" \in DOMAIN ss =>
                  /\ r.Revenue_generated >= ss.revenue_range[1]
                  /\ r.Revenue_generated <= ss.revenue_range[2]
            /\ "lead_time_max" \in DOMAIN ss => r.Lead_times <= ss.lead_time_max
            /\ ("risk_levels" \in DOMAIN ss /\ ss.risk_levels # {}) =>
                  r.Risk_Level \in ss.risk_levels
        kept == SelectSeq(data, Keep)
    IN  [i \in 1..Len(kept) |->
            [kept[i] EXCEPT !.Performance_Score = ScoreAgainst(kept[i], ColumnMaxima(kept))]]

\* the revenue filter with < and > for <= and >=
revenue_range_filter_exclusive(data, ss) ==
    IF "revenue_range" \in DOMAIN ss
    THEN SelectSeq(data, LAMBDA r : /\ r.Revenue_generated > ss.revenue_range[1]
                                    /\ r.Revenue_generated < ss.revenue_range[2])
    ELSE data

\* lines 943-949
revenue_range_filter(data, ss) ==
    IF "revenue_range" \in DOMAIN ss
    THEN SelectSeq(data, LAMBDA r : /\ r.Revenue_generated >= ss.revenue_range[1]
                                    /\ r.Revenue_generated <= ss.revenue_range[2])
    ELSE data

\* lines 951-955
lead_time_filter(data, ss) ==
    IF "lead_time_max" \in DOMAIN ss
    THEN SelectSeq(data, LAMBDA r : r.Lead_times <= ss.lead_time_max)
    ELSE data

\* the risk filter with ~isin(...) for isin(...)
risk_level_filter_inverted(data, ss) ==
    IF "risk_levels" \in DOMAIN ss /\ ss.risk_levels # {}
    THEN SelectSeq(data, LAMBDA r : r.Risk_Level \notin ss.risk_levels)
    ELSE data

\* lines 957-961: an empty selection is falsy, and the filter is skipped
risk_level_filter(data, ss) ==
    IF "risk_levels" \in DOMAIN ss /\ ss.risk_levels # {}
    THEN SelectSeq(data, LAMBDA r : r.Risk_Level \in ss.risk_levels)
    ELSE data

\* lines 927-963
apply_filters(data, ss) ==
    LET f1 == IF ss.selected_product_type # "All"
              THEN SelectSeq(data, LAMBDA r : r.Product_type = ss.selected_product_type)
              ELSE data
        f2 == IF ss.selected_location # "All"
              THEN SelectSeq(f1, LAMBDA r : r.Location = ss.selected_location)
              ELSE f1
    IN  risk_level_filter(lead_time_filter(revenue_range_filter(f2, ss), ss), ss)

\* ---------------------------------------------------------- script run
\* the names bound in the interactive script when main runs: its imports
\* (lines 16-25), its two constants and its functions and classes
ModuleNames ==
    {"st", "go", "px", "pd", "np", "duckdb", "time", "json", "Dict", "List",
     "Tuple", "Any", "Optional", "datetime", "ENHANCED_CSS", "INTERACTIVE_JS",
     "load_supply_chain_data", "calculate_advanced_metrics",
     "AdvancedChartFactory", "EnhancedDataAnalyzer", "main",
     "create_interactive_sidebar", "apply_filters",
     "create_dynamic_insights_section", "create_interactive_dashboard_layout"}

\* looking a global name up raises NameError when nothing binds it
NameError(name) == name \notin ModuleNames

\* interactive script, top of file to the end of main's try block.  The
\* call of line 810 looks create_plotly_theme up after the enrichment and
\* the analyzer of lines 806-809; the except clause of lines 813-815
\* catches what it raises.
InteractiveInit ==
    /\ pc = "start"
    /\ app = "interactive"
    /\ session_state' = SessionDefaults(session_state)
    /\ LET loaded == CachedLoad IN
       /\ load_cache' = <<loaded>>
       /\ IF loaded.df = <<>>
          THEN /\ raw_data' = loaded.df
               /\ errors' = loaded.msgs \o <<"No data available">>
               /\ pc' = "stopped"
               /\ UNCHANGED <<metrics_cache, processed_data, analyzer, last_enriched,
                              db_connections>>
          ELSE IF KeyError(Columns(loaded.df), AdvancedMetricsColumns)
          THEN \* calculate_advanced_metrics raises, nothing is cached, and
               \* the except clause of lines 813-815 ends the run
               /\ raw_data' = loaded.df
               /\ errors' = initialization_error(loaded.msgs)
               /\ pc' = "stopped"
               /\ UNCHANGED <<metrics_cache, processed_data, analyzer, last_enriched,
                              db_connections>>
          ELSE /\ analyzer' = "processed_data"
               /\ IF NameError("create_plotly_theme")
                  THEN /\ errors' = initialization_error(loaded.msgs)
                       /\ pc' = "stopped"
                  ELSE /\ errors' = loaded.msgs
                       /\ pc' = "sidebar"
               /\ IF loaded.df \in DOMAIN metrics_cache
                  THEN /\ raw_data' = loaded.df
                       /\ processed_data' = metrics_cache[loaded.df]
                       /\ UNCHANGED <<metrics_cache, last_enriched>>
                  ELSE \E enhanced_df \in {metric_columns(loaded.df)} :
                       \E draws \in TrendDraws(Len(loaded.df)) :
                         LET result == trend_columns(enhanced_df, draws)
                         IN  /\ raw_data' = frame_after_enrichment(loaded.df, result)
                             /\ processed_data' = result
                             /\ last_enriched' = result
                             /\ metrics_cache' = (loaded.df :> result) @@ metrics_cache
               /\ db_connections' = <<[supply_data |-> processed_data']>>
    /\ UNCHANGED <<app, csv, filtered_data, widgets, insights, metrics, analytics,
                   runs, restarts, threads>>
    /\ UNCHANGED script

\* the reset with the lead-time default taken from the slider's min_value
reset_all_filters_min_lead_time(data, w) ==
    [animation_enabled |-> w.animation_enabled,
     selected_product_type |-> "All",
     selected_location |-> "All",
     revenue_range |-> DefaultRevenueRange(data),
     lead_time_max |-> MinOf(LeadTimes(data)),
     risk_levels |-> AllRiskLevels]

\* lines 918-924: the session state when 'Reset All Filters' was clicked;
\* animation_enabled is what line 866 stored from the toggle
reset_all_filters(data, w) ==
    [animation_enabled |-> w.animation_enabled,
     selected_product_type |-> "All",
     selected_location |-> "All",
     revenue_range |-> DefaultRevenueRange(data),
     lead_time_max |-> DefaultLeadTimeMax(data),
     risk_levels |-> AllRiskLevels]

\* list.index(value) raises ValueError when the value is not in the list
ValueError(options, value) == value \notin options

\* create_interactive_sidebar (lines 855-925)
InteractiveSidebar ==
    /\ pc = "sidebar"
    /\ app = "interactive"
    /\ IF \/ ValueError(ProductTypeOptions(processed_data), session_state.selected_product_type)
          \/ ValueError(LocationOptions(processed_data), session_state.selected_location)
       THEN \* lines 876 and 884: the lookup of the stored selection
            \* fails and nothing catches it
            /\ errors' = errors \o <<"ValueError">>
            /\ pc' = "crashed"
            /\ UNCHANGED <<session_state, widgets, runs, raw_data, processed_data,
                           analyzer, db_connections>>
       ELSE
       LET cur == WidgetValues(processed_data, session_state, widgets) IN
       \E w \in {cur} \cup (IF runs > 1 THEN UserInputs(processed_data, cur) ELSE {}) :
         /\ w.revenue_range[1] <= w.revenue_range[2]
         /\ widgets' = [revenue_range |-> w.revenue_range,
                        lead_time_max |-> w.lead_time_max,
                        risk_levels |-> w.risk_levels]
         /\ IF w.reset
            THEN \* 'Reset All Filters' was clicked: lines 919-925 (the run
                 \* that st.rerun() starts comes on top of the MaxRuns runs
                 \* that interactions start)
                 /\ runs <= MaxRuns
                 /\ session_state' = reset_all_filters(processed_data, w)
                 /\ pc' = "start"
                 /\ runs' = runs + 1
                 /\ raw_data' = <<>>
                 /\ processed_data' = <<>>
                 /\ analyzer' = "none"
                 /\ errors' = <<>>
                 /\ db_connections' = <<>>
            ELSE /\ session_state' =
                      [animation_enabled |-> w.animation_enabled,
                       selected_product_type |-> w.selected_product_type,
                       selected_location |-> w.selected_location,
                       revenue_range |-> w.revenue_range,
                       lead_time_max |-> w.lead_time_max,
                       risk_levels |-> w.risk_levels]
                 /\ pc' = "render"
                 /\ UNCHANGED <<runs, raw_data, processed_data, analyzer, errors,
                                db_connections>>
    /\ UNCHANGED <<app, csv, load_cache, metrics_cache, filtered_data, insights,
                   metrics, analytics, restarts, last_enriched, threads>>
    /\ UNCHANGED script

\* main, lines 820-853: filter, new analyzer, insights, dashboard layout
InteractiveRender ==
    /\ pc = "render"
    /\ app = "interactive"
    /\ \E filtered \in {apply_filters(processed_data, session_state)} :
         /\ filtered_data' = filtered
         /\ analyzer' = "filtered_data"
         /\ db_connections' = Append(db_connections, [supply_data |-> filtered])
         /\ IF KeyError(Columns(processed_data), PerformanceMetricsColumns)
            THEN \* the insights section raises at line 968
                 /\ insights' = <<>>
                 /\ metrics' = <<>>
                 /\ analytics' = <<>>
                 /\ errors' = errors \o <<"KeyError">>
                 /\ pc' = "crashed"
            ELSE
         \* get_performance_metrics is called twice on the same frame
         \* (lines 968 and 993): the same numbers, trends drawn each time
            /\ \E numbers \in {basic_and_advanced_metrics(filtered)} :
                 /\ \E draw \in MetricTrendDraws :
                      insights' = with_trends(numbers, draw)
                 /\ \E draw \in MetricTrendDraws :
                      metrics' = with_trends(numbers, draw)
            /\ IF BinderException(Columns(processed_data), AdvancedAnalyticsColumns)
               THEN \* a query of get_advanced_analytics raises at line 994:
                    \* the dictionary is not returned, the run ends there
                    /\ analytics' = <<>>
                    /\ errors' = errors \o <<"BinderException">>
                    /\ pc' = "crashed"
               ELSE /\ analytics' \in get_advanced_analytics(filtered)
                    /\ errors' = errors
                    /\ pc' = "done"
    /\ UNCHANGED <<app, csv, load_cache, metrics_cache, raw_data, processed_data,
                   session_state, widgets, runs, restarts, last_enriched, threads>>
    /\ UNCHANGED script

\* create_interactive_dashboard_layout (lines 993-994) on the analyzer at
\* hand: the metrics and the grouped results
InteractiveLayout ==
    /\ app = "interactive"
    /\ analyzer # "none"
    /\ \E numbers \in {basic_and_advanced_metrics(AnalyzerDf)} :
         \E draw \in MetricTrendDraws :
             metrics' = with_trends(numbers, draw)
    /\ analytics' \in get_advanced_analytics(AnalyzerDf)
    /\ UNCHANGED <<app, csv, pc, load_cache, metrics_cache, raw_data, processed_data,
                   filtered_data, analyzer, session_state, widgets, insights,
                   errors, runs, restarts, last_enriched, db_connections, threads>>
    /\ UNCHANGED script

\* basic script, top of file to the end of main's try block
BasicInit ==
    /\ pc = "start"
    /\ app = "basic"
    /\ LET loaded == CachedLoad IN
       /\ load_cache' = <<loaded>>
       /\ IF loaded.df = <<>>
          THEN /\ raw_data' = loaded.df
               /\ errors' = loaded.msgs \o <<"No data available">>
               /\ pc' = "stopped"
               /\ UNCHANGED <<metrics_cache, processed_data, analyzer, db_connections>>
          ELSE IF KeyError(Columns(loaded.df), DerivedMetricsColumns)
          THEN \* calculate_derived_metrics raises, nothing is cached, and
               \* the except clause of lines 457-459 ends the run
               /\ raw_data' = loaded.df
               /\ errors' = initialization_error(loaded.msgs)
               /\ pc' = "stopped"
               /\ UNCHANGED <<metrics_cache, processed_data, analyzer, db_connections>>
          ELSE /\ errors' = loaded.msgs
               /\ pc' = "sidebar"
               /\ analyzer' = "processed_data"
               /\ LET result == IF loaded.df \in DOMAIN metrics_cache
                                THEN metrics_cache[loaded.df]
                                ELSE calculate_derived_metrics(loaded.df)
                  IN  /\ raw_data' = IF loaded.df \in DOMAIN metrics_cache
                                     THEN loaded.df
                                     ELSE frame_after_enrichment(loaded.df, result)
                      /\ processed_data' = result
                      /\ metrics_cache' = (loaded.df :> result) @@ metrics_cache
                      /\ db_connections' = <<[supply_data |-> result]>>
    /\ UNCHANGED <<app, csv, filtered_data, session_state, widgets, insights,
                   metrics, analytics, runs, restarts, last_enriched, threads>>
    /\ UNCHANGED script

\* basic main, lines 461-470: the two select boxes keep their value in the
\* browser; the interaction that caused this run changed at most one
BasicSidebar ==
    /\ pc = "sidebar"
    /\ app = "basic"
    /\ LET cur == [selected_product_type |->
                      IF "selected_product_type" \in DOMAIN widgets
                      THEN widgets.selected_product_type ELSE "All",
                   selected_location |->
                      IF "selected_location" \in DOMAIN widgets
                      THEN widgets.selected_location ELSE "All"]
       IN  \E w \in {cur} \cup
                    (IF runs > 1
                     THEN {[cur EXCEPT !.selected_product_type = v] :
                              v \in ProductTypeOptions(processed_data)}
                          \cup {[cur EXCEPT !.selected_location = v] :
                                   v \in LocationOptions(processed_data)}
                     ELSE {}) :
             widgets' = w
    /\ pc' = "render"
    /\ UNCHANGED <<app, csv, load_cache, metrics_cache, raw_data, processed_data,
                   filtered_data, analyzer, session_state, insights, metrics,
                   analytics, errors, runs, restarts, last_enriched, db_connections,
                   threads>>
    /\ UNCHANGED script

\* the filter without its location part
basic_filter_product_only(data, w) ==
    IF w.selected_product_type # "All"
    THEN SelectSeq(data, LAMBDA r : r.Product_type = w.selected_product_type)
    ELSE data

\* basic main, lines 472-477
basic_filter(data, w) ==
    LET f1 == IF w.selected_product_type # "All"
              THEN SelectSeq(data, LAMBDA r : r.Product_type = w.selected_product_type)
              ELSE data
        f2 == IF w.selected_location # "All"
              THEN SelectSeq(f1, LAMBDA r : r.Location = w.selected_location)
              ELSE f1
    IN  f2

\* the values create_dashboard_layout asks of the analyzer and the frame
BasicMetrics(df) ==
    [total_revenue |-> get_total_revenue(df),
     total_orders |-> get_total_orders(df),
     avg_lead_time |-> get_average_lead_time(df),
     total_availability |-> pd_sum(df, "Availability")]

BasicAnalytics(df) ==
    [revenue_by_product : get_revenue_by_product_type(df),
     location_performance : get_location_performance(df),
     supplier_data : get_supplier_analysis(df)]

\* the supplier query answered without the column it cannot find
results_with_partial_supplier_analysis(df) ==
    [revenue_by_product : get_revenue_by_product_type(df),
     location_performance : get_location_performance(df),
     supplier_data : {<<[product_count |-> COUNT(df)]>>}]

\* what the layout holds when get_supplier_analysis raises: the results
\* of the two queries before it (lines 558 and 588), none of its own
results_before_supplier_analysis(df) ==
    [revenue_by_product : get_revenue_by_product_type(df),
     location_performance : get_location_performance(df)]

\* basic main, lines 472-503: filter, new analyzer, dashboard layout
BasicRender ==
    /\ pc = "render"
    /\ app = "basic"
    /\ \E filtered \in {basic_filter(processed_data, widgets)} :
         /\ filtered_data' = filtered
         /\ analyzer' = "filtered_data"
         /\ db_connections' = Append(db_connections, [supply_data |-> filtered])
         /\ metrics' = BasicMetrics(filtered)
         /\ IF BinderException(Columns(processed_data), SupplierAnalysisColumns)
            THEN \* get_supplier_analysis raises at line 596, after the
                 \* charts of the two queries before it
                 /\ analytics' \in results_before_supplier_analysis(filtered)
                 /\ errors' = errors \o <<"BinderException">>
                 /\ pc' = "crashed"
            ELSE IF KeyError(Columns(processed_data), TransportOrdersColumns)
            THEN \* the groupby of line 604 raises, after the supplier chart
                 /\ analytics' \in BasicAnalytics(filtered)
                 /\ errors' = errors \o <<"KeyError">>
                 /\ pc' = "crashed"
            ELSE /\ analytics' \in BasicAnalytics(filtered)
                 /\ errors' = errors
                 /\ pc' = "done"
    /\ UNCHANGED <<app, csv, load_cache, metrics_cache, raw_data, processed_data,
                   session_state, widgets, insights, runs, restarts,
                   last_enriched, threads>>
    /\ UNCHANGED script

\* create_dashboard_layout on the analyzer at hand
BasicLayout ==
    /\ app = "basic"
    /\ analyzer # "none"
    /\ metrics' = BasicMetrics(AnalyzerDf)
    /\ analytics' \in BasicAnalytics(AnalyzerDf)
    /\ UNCHANGED <<app, csv, pc, load_cache, metrics_cache, raw_data, processed_data,
                   filtered_data, analyzer, session_state, widgets, insights,
                   errors, runs, restarts, last_enriched, db_connections, threads>>
    /\ UNCHANGED script

\* Streamlit runs the script again (a widget interaction, a browser
\* refresh): caches, session state and widget values survive, the page
\* is built anew.
Rerun ==
    /\ pc # "start"
    /\ runs < MaxRuns
    /\ runs' = runs + 1
    /\ pc' = "start"
    /\ raw_data' = <<>>
    /\ processed_data' = <<>>
    /\ filtered_data' = <<>>
    /\ analyzer' = "none"
    /\ insights' = <<>>
    /\ metrics' = <<>>
    /\ analytics' = <<>>
    /\ errors' = <<>>
    /\ db_connections' = <<>>
    /\ UNCHANGED <<app, csv, load_cache, metrics_cache, session_state, widgets,
                   restarts, last_enriched, threads>>
    /\ UNCHANGED script

\* The server process is started again and the page is opened anew: the
\* st.cache_data memos, the session and the widget values are gone.
Restart ==
    /\ pc # "start"
    /\ restarts < MaxRestarts
    /\ restarts' = restarts + 1
    /\ runs' = 1
    /\ pc' = "start"
    /\ load_cache' = <<>>
    /\ metrics_cache' = <<>>
    /\ session_state' = <<>>
    /\ widgets' = <<>>
    /\ raw_data' = <<>>
    /\ processed_data' = <<>>
    /\ filtered_data' = <<>>
    /\ analyzer' = "none"
    /\ insights' = <<>>
    /\ metrics' = <<>>
    /\ analytics' = <<>>
    /\ errors' = <<>>
    /\ db_connections' = <<>>
    /\ UNCHANGED <<app, csv, last_enriched, threads>>
    /\ UNCHANGED script

CsvFiles(batches) ==
    {[readable |-> FALSE, rows |-> <<>>]} \cup
    {[readable |-> TRUE, rows |-> b] : b \in batches}

InitWith(batches) ==
    /\ app \in {"interactive", "basic"}
    /\ csv \in CsvFiles(batches)
    /\ pc = "start"
    /\ load_cache = <<>>
    /\ metrics_cache = <<>>
    /\ raw_data = <<>>
    /\ processed_data = <<>>
    /\ filtered_data = <<>>
    /\ analyzer = "none"
    /\ session_state = <<>>
    /\ widgets = <<>>
    /\ insights = <<>>
    /\ metrics = <<>>
    /\ analytics = <<>>
    /\ errors = <<>>
    /\ runs = 1
    /\ restarts = 0
    /\ last_enriched = <<>>
    /\ db_connections = <<>>
    /\ threads = <<>>
    /\ ScriptLoaded

\* ---- the dashboards as served: runs of the script, one after another
Init ==
    InitWith(Excerpts(FlowFile, MaxRows) \cup Headless(Excerpts(FlowFile, MaxRows)))

Next == \/ InteractiveInit
        \/ BasicInit \/ BasicSidebar \/ BasicRender
        \/ Rerun

Spec == Init /\ [][Next]_vars

\* ---- the code after the try block of the interactive main (lines
\* 817-853): the sidebar, the filters, the analyzer of the filtered
\* batch, the page.  No run of main gets there (line 810 raises), so the
\* code is entered from where the try block stopped, with the enriched
\* batch and the analyzer of lines 806-809, as it would be were
\* create_plotly_theme bound.
InteractiveResume ==
    /\ app = "interactive"
    /\ pc = "stopped"
    /\ analyzer = "processed_data"
    /\ pc' = "sidebar"
    /\ errors' = load_cache[1].msgs
    /\ UNCHANGED <<app, csv, load_cache, metrics_cache, raw_data, processed_data,
                   filtered_data, analyzer, session_state, widgets, insights, metrics,
                   analytics, runs, restarts, last_enriched, db_connections, threads>>
    /\ UNCHANGED script

NextSidebar == Next \/ InteractiveResume \/ InteractiveSidebar \/ InteractiveRender

SpecSidebar == Init /\ [][NextSidebar]_vars

\* ---- enrichment on its own: load, enrich, run again, start again
InitEnrich == InitWith(Batches(RowPool, MaxRows))

NextEnrich == InteractiveInit \/ BasicInit \/ Rerun \/ Restart

SpecEnrich == InitEnrich /\ [][NextEnrich]_vars

\* ---- the analyzers on their own: load, enrich, lay the dashboard out
\* on the analyzer of the try block, any number of times
InitAnalyze == InitWith(Batches(RowPool, MaxRows) \cup {ProductExample})

NextAnalyze == InteractiveInit \/ BasicInit \/ InteractiveLayout \/ BasicLayout

SpecAnalyze == InitAnalyze /\ [][NextAnalyze]_vars

\* ---- analyzers built and queried side by side: the threads of one
\* server process, each running the script for a session of its own
MaxThreads == 2

\* the analyzers that may be built in all
MaxAnalyzers == 3

\* the batches handed to the constructors
AnalyzerBatches == {SubSeq(ProductExample, 1, 1), ProductExample}

\* one connection for the whole process, as duckdb.default_connection is
duckdb_connect_default(connections) == 1

\* duckdb.connect() without a database name opens an in-memory database
\* of its own
duckdb_connect(connections) == Len(connections) + 1

\* connection.register(name, df): the name now refers to df in that
\* database, whatever it referred to before
register(catalog, name, df) == (name :> df) @@ catalog

\* a thread that holds no analyzer
NoAnalyzer == [at |-> "idle", df |-> <<>>, db_connection |-> 0, result |-> <<>>]

\* __init__, first statement: self.df = df
Analyzer_init_df(t) ==
    /\ threads[t].at = "idle"
    /\ Len(db_connections) < MaxAnalyzers
    /\ \E df \in AnalyzerBatches :
         threads' = [threads EXCEPT ![t] = [NoAnalyzer EXCEPT !.at = "df", !.df = df]]
    /\ UNCHANGED <<app, csv, pc, load_cache, metrics_cache, raw_data, processed_data,
                   filtered_data, analyzer, session_state, widgets, insights, metrics,
                   analytics, errors, runs, restarts, last_enriched, db_connections>>
    /\ UNCHANGED script

\* __init__, second statement: self.db_connection = duckdb.connect()
Analyzer_init_connect(t) ==
    /\ threads[t].at = "df"
    /\ LET c == duckdb_connect(db_connections) IN
       /\ threads' = [threads EXCEPT ![t].at = "connected", ![t].db_connection = c]
       /\ db_connections' = IF c > Len(db_connections)
                            THEN Append(db_connections, <<>>)
                            ELSE db_connections
    /\ UNCHANGED <<app, csv, pc, load_cache, metrics_cache, raw_data, processed_data,
                   filtered_data, analyzer, session_state, widgets, insights, metrics,
                   analytics, errors, runs, restarts, last_enriched>>
    /\ UNCHANGED script

\* __init__, third statement: self.db_connection.register('supply_data', df)
Analyzer_init_register(t) ==
    /\ threads[t].at = "connected"
    /\ threads' = [threads EXCEPT ![t].at = "ready"]
    /\ db_connections' =
          [db_connections EXCEPT ![threads[t].db_connection] =
              register(@, "supply_data", threads[t].df)]
    /\ UNCHANGED <<app, csv, pc, load_cache, metrics_cache, raw_data, processed_data,
                   filtered_data, analyzer, session_state, widgets, insights, metrics,
                   analytics, errors, runs, restarts, last_enriched>>
    /\ UNCHANGED script

\* the queries of DataAnalyzer (lines 365-393), put to supply_data through
\* self.db_connection
Analyzer_query(t) ==
    /\ threads[t].at \in {"ready", "answered"}
    /\ LET supply_data == db_connections[threads[t].db_connection].supply_data IN
       \E rows \in get_revenue_by_product_type(supply_data) :
           threads' = [threads EXCEPT
                          ![t].at = "answered",
                          ![t].result = [total_revenue |-> get_total_revenue(supply_data),
                                         total_orders |-> get_total_orders(supply_data),
                                         revenue_by_product |-> rows]]
    /\ UNCHANGED <<app, csv, pc, load_cache, metrics_cache, raw_data, processed_data,
                   filtered_data, analyzer, session_state, widgets, insights, metrics,
                   analytics, errors, runs, restarts, last_enriched, db_connections>>
    /\ UNCHANGED script

\* the name of the analyzer is bound anew (main builds a second analyzer
\* for the filtered batch) or the run ends
Analyzer_release(t) ==
    /\ threads[t].at \in {"ready", "answered"}
    /\ threads' = [threads EXCEPT ![t] = NoAnalyzer]
    /\ UNCHANGED <<app, csv, pc, load_cache, metrics_cache, raw_data, processed_data,
                   filtered_data, analyzer, session_state, widgets, insights, metrics,
                   analytics, errors, runs, restarts, last_enriched, db_connections>>
    /\ UNCHANGED script

InitAnalyzers ==
    /\ app \in {"interactive", "basic"}
    /\ csv = [readable |-> TRUE, rows |-> ProductExample]
    /\ pc = "start"
    /\ load_cache = <<>>
    /\ metrics_cache = <<>>
    /\ raw_data = <<>>
    /\ processed_data = <<>>
    /\ filtered_data = <<>>
    /\ analyzer = "none"
    /\ session_state = <<>>
    /\ widgets = <<>>
    /\ insights = <<>>
    /\ metrics = <<>>
    /\ analytics = <<>>
    /\ errors = <<>>
    /\ runs = 1
    /\ restarts = 0
    /\ last_enriched = <<>>
    /\ db_connections = <<>>
    /\ threads = [t \in 1..MaxThreads |-> NoAnalyzer]
    /\ ScriptLoaded

NextAnalyzers ==
    \E t \in 1..MaxThreads :
        \/ Analyzer_init_df(t)
        \/ Analyzer_init_connect(t)
        \/ Analyzer_init_register(t)
        \/ Analyzer_query(t)
        \/ Analyzer_release(t)

SpecAnalyzers == InitAnalyzers /\ [][NextAnalyzers]_vars

\* ---- the animation queue of the page's script (INTERACTIVE_JS, lines
\* 250-271).  The script runs on one thread: a function runs to its end
\* before a promise callback or a timer does.
MaxAnimations == 5

\* What a caller hands to addToAnimationQueue: an object whose execute()
\* returns a promise that is fulfilled or rejected later.  The number is
\* the order of the calls.
Animations(n) == {[id |-> n, settles |-> o] : o \in {"fulfilled", "rejected"}}

\* the state of the page's script outside the queue
flow == <<app, csv, pc, load_cache, metrics_cache, raw_data, processed_data,
                   filtered_data, analyzer, session_state, widgets, insights, metrics,
                   analytics, errors, runs, restarts, last_enriched, db_connections,
                   threads>>

\* lines 258-271, up to the call of execute(): queue is the array when
\* the function is entered
processAnimationQueue(queue) ==
    IF queue = <<>>
    THEN /\ isAnimating' = FALSE
         /\ animationQueue' = queue
         /\ UNCHANGED <<promises, executed>>
    ELSE /\ isAnimating' = TRUE
         /\ animationQueue' = Tail(queue)
         /\ promises' = promises \cup {Head(queue)}
         /\ executed' = Append(executed, Head(queue).id)

\* lines 251-256
addToAnimationQueue ==
    /\ Len(executed) + Len(animationQueue) < MaxAnimations
    /\ \E animation \in Animations(Len(executed) + Len(animationQueue) + 1) :
         IF ~isAnimating
         THEN processAnimationQueue(Append(animationQueue, animation))
         ELSE /\ animationQueue' = Append(animationQueue, animation)
              /\ UNCHANGED <<isAnimating, promises, executed>>
    /\ UNCHANGED <<timeout>>
    /\ UNCHANGED flow

\* the promise of execute() is fulfilled: the callback of line 268 arms
\* the timer of line 269
PromiseFulfilled ==
    /\ \E animation \in promises :
         /\ animation.settles = "fulfilled"
         /\ promises' = promises \ {animation}
    /\ timeout' = TRUE
    /\ UNCHANGED <<animationQueue, isAnimating, executed>>
    /\ UNCHANGED flow

\* the promise of execute() is rejected: then() was given no second
\* callback and nothing else handles the rejection
PromiseRejected ==
    /\ \E animation \in promises :
         /\ animation.settles = "rejected"
         /\ promises' = promises \ {animation}
    /\ UNCHANGED <<animationQueue, isAnimating, timeout, executed>>
    /\ UNCHANGED flow

\* the timer of line 269 fires and calls processAnimationQueue
Timeout ==
    /\ timeout
    /\ timeout' = FALSE
    /\ processAnimationQueue(animationQueue)
    /\ UNCHANGED flow

InitAnimation ==
    /\ app = "interactive"
    /\ csv = [readable |-> TRUE, rows |-> ProductExample]
    /\ pc = "start"
    /\ load_cache = <<>>
    /\ metrics_cache = <<>>
    /\ raw_data = <<>>
    /\ processed_data = <<>>
    /\ filtered_data = <<>>
    /\ analyzer = "none"
    /\ session_state = <<>>
    /\ widgets = <<>>
    /\ insights = <<>>
    /\ metrics = <<>>
    /\ analytics = <<>>
    /\ errors = <<>>
    /\ runs = 1
    /\ restarts = 0
    /\ last_enriched = <<>>
    /\ db_connections = <<>>
    /\ threads = <<>>
    /\ ScriptLoaded

NextAnimation == addToAnimationQueue \/ PromiseFulfilled \/ PromiseRejected \/ Timeout

SpecAnimation == InitAnimation /\ [][NextAnimation]_vars

\* The event loop runs every callback that is due: a settled promise's
\* reaction and an armed timer are not put off for ever.  Nothing obliges
\* a caller to add an animation.
SpecAnimationFair ==
    /\ SpecAnimation
    /\ WF_vars(PromiseFulfilled)
    /\ WF_vars(PromiseRejected)
    /\ WF_vars(Timeout)

\* ====================================================== properties
\* rows enriched by the interactive / the basic version
AdvancedRows == IF app = "interactive" THEN processed_data ELSE <<>>
DerivedRows == IF app = "basic" THEN processed_data ELSE <<>>

\* n/d is the exact quotient x / y
IsQuotient(q, x, y) == IsFinite(q) /\ q[1] * y = x * q[2]

C2_GuardedRatios ==
    \A i \in 1..Len(AdvancedRows) :
        LET r == AdvancedRows[i] IN
        /\ r.Manufacturing_costs = 0 => r.Efficiency_Ratio = F(0)
        /\ r.Manufacturing_costs # 0 =>
              IsQuotient(r.Efficiency_Ratio, r.Revenue_generated, r.Manufacturing_costs)
        /\ r.Stock_levels = 0 => r.Inventory_Turnover = F(0)
        /\ r.Stock_levels # 0 =>
              IsQuotient(r.Inventory_Turnover, r.Number_of_products_sold, r.Stock_levels)

\* a batch with a zero-cost row and a zero-stock row next to a row with
\* non-zero denominators has been enriched
C2_Witness ==
    /\ \E i \in 1..Len(AdvancedRows) :
          AdvancedRows[i].Manufacturing_costs = 0 /\ AdvancedRows[i].Revenue_generated > 0
    /\ \E i \in 1..Len(AdvancedRows) :
          AdvancedRows[i].Stock_levels = 0 /\ AdvancedRows[i].Number_of_products_sold > 0

\* C3 (as claimed): in the basic version a zero manufacturing cost gives
\* Efficiency_Ratio 0 and a zero stock level gives Inventory_Turnover 0,
\* never NaN or Inf.
C3_DerivedRatiosGuarded ==
    \A i \in 1..Len(DerivedRows) :
        LET r == DerivedRows[i] IN
        /\ r.Manufacturing_costs = 0 => r.Efficiency_Ratio = F(0)
        /\ r.Stock_levels = 0 => r.Inventory_Turnover = F(0)

\* C4 (as claimed): a column maximum of 0 makes its term 0, so every
\* Performance_Score is a number.
C4_ScoreDefined ==
    \A i \in 1..Len(AdvancedRows) : IsFinite(AdvancedRows[i].Performance_Score)

\* C6: enrichment returns as many rows as it was given, in the same
\* order: row i of the result is row i of the input with columns added.
C6_RowsPreserved ==
    analyzer = "processed_data" =>
        /\ Len(processed_data) = Len(raw_data)
        /\ \A i \in 1..Len(raw_data) : RawOf(processed_data[i]) = raw_data[i]

\* the interactive enricher has returned for a batch of two different rows
C6_Witness ==
    /\ app = "interactive"
    /\ analyzer = "processed_data"
    /\ Len(raw_data) = MaxRows
    /\ raw_data[1] # raw_data[2]
    /\ Len(processed_data) = MaxRows

\* C7 (as claimed): every row with a non-negative defect rate, 0
\* included, gets one of the four risk levels.
C7_RiskLevelDefined ==
    \A i \in 1..Len(AdvancedRows) :
        AdvancedRows[i].Defect_rates >= 0 => AdvancedRows[i].Risk_Level \in AllRiskLevels

\* this step executes the body of calculate_advanced_metrics (the cache
\* has no entry) on the batch it was last executed on
Recomputed ==
    /\ app = "interactive"
    /\ last_enriched # <<>>
    /\ DOMAIN metrics_cache = {}
    /\ DOMAIN metrics_cache' # {}
    /\ raw_data' = [i \in 1..Len(last_enriched) |-> RawOf(last_enriched[i])]

TrendColumns == {"Trend_Direction", "Trend_Strength"}

WithoutTrend(df) ==
    [i \in 1..Len(df) |-> [c \in (DOMAIN df[i]) \ TrendColumns |-> df[i][c]]]

Rendered == app = "interactive" /\ pc = "done"

\* C5 (as claimed): the Performance_Score of every row that is displayed
\* and aggregated is relative to the column maxima of that batch, the
\* filtered one.
C5_ScoreOfFilteredBatch ==
    Rendered =>
        \A i \in 1..Len(filtered_data) :
            filtered_data[i].Performance_Score =
                ScoreAgainst(filtered_data[i], ColumnMaxima(filtered_data))

\* C5 (amended): the Performance_Score of every row that is displayed and
\* aggregated is relative to the column maxima of the whole loaded batch,
\* whichever rows pass the filters: filtering does not score again.
C5_ScoreOfLoadedBatch ==
    Rendered =>
        /\ analyzer = "filtered_data"
        /\ \A i \in 1..Len(filtered_data) :
              filtered_data[i].Performance_Score =
                  ScoreAgainst(filtered_data[i], ColumnMaxima(raw_data))

\* a page is shown whose filters have dropped a row that holds a maximum
C5_Witness ==
    /\ Rendered
    /\ filtered_data # <<>>
    /\ Len(filtered_data) < Len(raw_data)
    /\ ColumnMaxima(filtered_data) # ColumnMaxima(raw_data)

\* the entries of the metrics that are numbers
NumericMetrics(m) ==
    [k \in (DOMAIN m) \ {"revenue_trend", "orders_trend", "lead_time_trend"} |-> m[k]]

\* C9 (as claimed): when the dashboard queries are run again on the same
\* batch, the grouped results are the same, row order included, and so
\* are the numeric metrics.
C9_SameOutput ==
    [][(DOMAIN analytics # {} /\ DOMAIN analytics' # {} /\ AnalyzerDf' = AnalyzerDf) =>
          /\ analytics' = analytics
          /\ NumericMetrics(metrics') = NumericMetrics(metrics)]_vars

\* the grouped results by the column they group on and, where the query
\* has one, their COUNT(*) column
KeyedResults ==
    IF DOMAIN analytics = {} THEN {}
    ELSE IF app = "interactive"
    THEN {[rows |-> analytics.product_performance, key |-> "Product_type"],
          [rows |-> analytics.location_efficiency, key |-> "Location"],
          [rows |-> analytics.supplier_risk, key |-> "Supplier_name"],
          [rows |-> analytics.transportation_analysis, key |-> "Transportation_modes"]}
    ELSE {[rows |-> analytics.revenue_by_product, key |-> "Product_type"],
          [rows |-> analytics.location_performance, key |-> "Location"],
          [rows |-> analytics.supplier_data, key |-> "Supplier_name"]}

CountedResults ==
    IF DOMAIN analytics = {} THEN {}
    ELSE IF app = "interactive"
    THEN {[rows |-> analytics.product_performance, key |-> "Product_type",
           count |-> "product_count"],
          [rows |-> analytics.supplier_risk, key |-> "Supplier_name",
           count |-> "product_count"],
          [rows |-> analytics.transportation_analysis, key |-> "Transportation_modes",
           count |-> "usage_count"]}
    ELSE {[rows |-> analytics.revenue_by_product, key |-> "Product_type",
           count |-> "product_count"],
          [rows |-> analytics.supplier_data, key |-> "Supplier_name",
           count |-> "product_count"]}

RowsWithKey(df, col, k) == {j \in 1..Len(df) : df[j][col] = k}

\* C10: every grouped result partitions its batch: one group row per
\* distinct key value and none other, so every row of the batch belongs
\* to exactly one group and no group is empty; the COUNT(*) column of a
\* group is the number of rows with its key, and the counts add up to
\* the size of the batch.
C10_Partition ==
    /\ \A q \in KeyedResults :
          /\ \A i, j \in 1..Len(q.rows) : i # j => q.rows[i][q.key] # q.rows[j][q.key]
          /\ {q.rows[i][q.key] : i \in 1..Len(q.rows)} = GroupKeys(AnalyzerDf, q.key)
    /\ \A q \in CountedResults :
          /\ \A i \in 1..Len(q.rows) :
                /\ q.rows[i][q.count] = Cardinality(RowsWithKey(AnalyzerDf, q.key, q.rows[i][q.key]))
                /\ q.rows[i][q.count] >= 1
          /\ SumSeq([i \in 1..Len(q.rows) |-> q.rows[i][q.count]]) = Len(AnalyzerDf)

\* a batch has been grouped into one group of two rows by one query and
\* into two groups by another
C10_Witness ==
    /\ \E q \in CountedResults : \E i \in 1..Len(q.rows) : q.rows[i][q.count] = 2
    /\ \E q \in CountedResults : Len(q.rows) = 2

\* the raw columns of the frame registered with the analyzer
AnalyzedBatch == [i \in 1..Len(AnalyzerDf) |-> RawOf(AnalyzerDf[i])]

\* the product-type result on the page, of either version
ProductTypeResult ==
    IF app = "basic" THEN analytics.revenue_by_product
    ELSE analytics.product_performance

\* the revenue of the rows of a frame that carry a product type, added up
RevenueOfType(df, k) ==
    SumSeq([j \in 1..Len(df) |->
               IF df[j].Product_type = k THEN df[j].Revenue_generated ELSE 0])

\* C11: the product-type query returns one row per distinct product
\* type, whose total_revenue is the sum of the revenue of exactly the
\* rows of that type and whose product_count is their number, in
\* descending order of total_revenue; types A, A, B with revenues 100,
\* 200, 50 give A: 300 (2 rows), then B: 50 (1 row).
C11_RevenueByProductType ==
    DOMAIN analytics # {} =>
        LET rows == ProductTypeResult IN
        /\ Len(rows) = Cardinality(GroupKeys(AnalyzerDf, "Product_type"))
        /\ {rows[i].Product_type : i \in 1..Len(rows)} = GroupKeys(AnalyzerDf, "Product_type")
        /\ \A i \in 1..Len(rows) :
              /\ rows[i].total_revenue = F(RevenueOfType(AnalyzerDf, rows[i].Product_type))
              /\ rows[i].product_count =
                    Cardinality(RowsWithKey(AnalyzerDf, "Product_type", rows[i].Product_type))
        /\ \A i, j \in 1..Len(rows) :
              i < j => ~FLess(rows[i].total_revenue, rows[j].total_revenue)
        /\ (app = "basic" /\ AnalyzedBatch = ProductExample) =>
              rows = << [Product_type |-> "A", total_revenue |-> F(300), product_count |-> 2],
                        [Product_type |-> "B", total_revenue |-> F(50), product_count |-> 1] >>

\* the basic dashboard has laid out the batch of the example
C11_Witness ==
    /\ app = "basic"
    /\ DOMAIN analytics # {}
    /\ AnalyzedBatch = ProductExample
    /\ Len(analytics.revenue_by_product) = 2

\* the rows of a result do not ascend / do not descend in a column
Descending(rows, col) ==
    \A i, j \in 1..Len(rows) : i < j => ~FLess(rows[i][col], rows[j][col])

Ascending(rows, col) ==
    \A i, j \in 1..Len(rows) : i < j => ~FLess(rows[j][col], rows[i][col])

InteractiveResults == app = "interactive" /\ DOMAIN analytics # {}

\* C12 (as claimed): each of the four results of get_advanced_analytics
\* is in descending order of the first reduction of its query.
C12_FirstReductionDescending ==
    InteractiveResults =>
        /\ Descending(analytics.product_performance, "total_revenue")
        /\ Descending(analytics.location_efficiency, "total_revenue")
        /\ Descending(analytics.supplier_risk, "avg_defect_rate")
        /\ Descending(analytics.transportation_analysis, "avg_shipping_cost")

\* C12 (amended): each of the four results is in the order its own
\* ORDER BY names: product_performance by total_revenue descending,
\* location_efficiency by avg_efficiency descending, supplier_risk by
\* avg_defect_rate descending, transportation_analysis by
\* avg_shipping_cost ascending.
C12_DeclaredOrder ==
    InteractiveResults =>
        /\ Descending(analytics.product_performance, "total_revenue")
        /\ Descending(analytics.location_efficiency, "avg_efficiency")
        /\ Descending(analytics.supplier_risk, "avg_defect_rate")
        /\ Ascending(analytics.transportation_analysis, "avg_shipping_cost")

\* two locations whose revenue and efficiency rank them differently and
\* two transportation modes of different shipping cost have been laid out
C12_Witness ==
    /\ InteractiveResults
    /\ Len(analytics.location_efficiency) = 2
    /\ FLess(analytics.location_efficiency[1].total_revenue,
             analytics.location_efficiency[2].total_revenue)
    /\ FLess(analytics.location_efficiency[2].avg_efficiency,
             analytics.location_efficiency[1].avg_efficiency)
    /\ Len(analytics.transportation_analysis) = 2
    /\ FLess(analytics.transportation_analysis[1].avg_shipping_cost,
             analytics.transportation_analysis[2].avg_shipping_cost)

BasicResults ==
    /\ app = "basic"
    /\ DOMAIN analytics = {"revenue_by_product", "location_performance", "supplier_data"}

\* C13: each of the three grouped results of DataAnalyzer is in
\* descending order of the first reduction of its query: total_revenue
\* for the product types and the locations, total_costs for the suppliers.
C13_BasicFirstReductionDescending ==
    BasicResults =>
        /\ Descending(analytics.revenue_by_product, "total_revenue")
        /\ Descending(analytics.location_performance, "total_revenue")
        /\ Descending(analytics.supplier_data, "total_costs")

\* two suppliers whose costs and defect rates rank them differently and
\* two locations of different revenue have been laid out
C13_Witness ==
    /\ BasicResults
    /\ Len(analytics.supplier_data) = 2
    /\ FLess(analytics.supplier_data[2].total_costs, analytics.supplier_data[1].total_costs)
    /\ FLess(analytics.supplier_data[1].avg_defect_rate,
             analytics.supplier_data[2].avg_defect_rate)
    /\ Len(analytics.location_performance) = 2
    /\ FLess(analytics.location_performance[2].total_revenue,
             analytics.location_performance[1].total_revenue)

\* the largest value of a column of the loaded batch
BatchMax(col) ==
    CHOOSE m \in {raw_data[j][col] : j \in 1..Len(raw_data)} :
        \A j \in 1..Len(raw_data) : raw_data[j][col] <= m

PositiveMaxima ==
    /\ AdvancedRows # <<>>
    /\ BatchMax("Revenue_generated") > 0
    /\ BatchMax("Lead_times") > 0
    /\ BatchMax("Defect_rates") > 0

\* 100 * (0.4 * revenue / mr + 0.3 * (1 - lead / ml) + 0.3 * (1 - defect / md))
ScoreFormula(r, mr, ml, md) ==
    FAdd(FAdd(Norm(40 * r.Revenue_generated, mr),
              Norm(30 * (ml - r.Lead_times), ml)),
         Norm(30 * (md - r.Defect_rates), md))

\* C14: when the three column maxima of the batch are positive, the
\* Performance_Score of every row is 100 * (0.4 * revenue / max revenue
\* + 0.3 * (1 - lead time / max lead time) + 0.3 * (1 - defect rate /
\* max defect rate)) with the maxima of the whole batch, and lies
\* between 0 and 100.
C14_ScoreFromBatchMaxima ==
    PositiveMaxima =>
        \A i \in 1..Len(AdvancedRows) :
            LET score == AdvancedRows[i].Performance_Score IN
            /\ score = ScoreFormula(AdvancedRows[i], BatchMax("Revenue_generated"),
                                    BatchMax("Lead_times"), BatchMax("Defect_rates"))
            /\ ~FLess(score, F(0))
            /\ ~FLess(F(100), score)

\* a batch of two rows with positive maxima has been scored, its first
\* row below the maximum in every one of the three columns
C14_Witness ==
    /\ PositiveMaxima
    /\ Len(AdvancedRows) = 2
    /\ AdvancedRows[1].Revenue_generated < BatchMax("Revenue_generated")
    /\ AdvancedRows[1].Lead_times < BatchMax("Lead_times")
    /\ AdvancedRows[1].Defect_rates < BatchMax("Defect_rates")
    /\ FLess(F(0), AdvancedRows[1].Performance_Score)
    /\ FLess(AdvancedRows[1].Performance_Score, F(100))

\* the constants a column is multiplied by
ScaleFactors == {2, 3}

\* the columns the score is computed from
ScoreColumns == {"Revenue_generated", "Lead_times", "Defect_rates"}

\* the batch with every value of one column multiplied by c
Rescaled(df, col, c) == [i \in 1..Len(df) |-> [df[i] EXCEPT ![col] = c * @]]

\* C15: multiplying every value of the revenue column, of the lead time
\* column or of the defect rate column of a batch by the same positive
\* constant leaves the Performance_Score of every row as it was.
C15_ScoreScaleInvariant ==
    AdvancedRows # <<>> =>
        \A col \in ScoreColumns : \A c \in ScaleFactors :
            LET scaled == Rescaled(raw_data, col, c)
                mx == ColumnMaxima(scaled)
            IN  \A i \in 1..Len(scaled) :
                    Performance_Score(scaled[i], mx) = AdvancedRows[i].Performance_Score

\* a batch of two rows that differ in all three columns, none of them
\* zero throughout, has been scored
C15_Witness ==
    /\ PositiveMaxima
    /\ Len(AdvancedRows) = 2
    /\ \A col \in ScoreColumns : AdvancedRows[1][col] # AdvancedRows[2][col]
    /\ AdvancedRows[1].Performance_Score # AdvancedRows[2].Performance_Score

ZeroRowBatch ==
    /\ analyzer = "filtered_data"
    /\ filtered_data = <<>>
    /\ DroppedColumns \subseteq Columns(processed_data)

\* the grouped results on the page
GroupedResults == {analytics[q] : q \in DOMAIN analytics}

\* C17: aggregating a batch of zero rows is not an error: the run
\* reaches its end with nothing reported, every grouped query returns
\* an empty result, and the totals of DataAnalyzer (revenue, orders,
\* average lead time) are 0.
C17_ZeroRowsNoError ==
    ZeroRowBatch =>
        /\ pc = "done"
        /\ errors = <<>>
        /\ DOMAIN analytics # {}
        /\ \A rows \in GroupedResults : rows = <<>>
        /\ app = "basic" =>
              /\ metrics.total_revenue = F(0)
              /\ metrics.total_orders = 0
              /\ metrics.avg_lead_time = F(0)

\* the basic dashboard has been filtered down to no row at all
C17_Witness ==
    /\ app = "basic"
    /\ ZeroRowBatch
    /\ Len(processed_data) = 2
    /\ widgets.selected_product_type # "All"
    /\ widgets.selected_location # "All"

\* the columns the enricher of the version being served reads
EnrichmentColumns ==
    IF app = "interactive" THEN AdvancedMetricsColumns ELSE DerivedMetricsColumns

\* the loaded batch lacks a column the enricher reads
SchemaFailure ==
    /\ raw_data # <<>>
    /\ ~(EnrichmentColumns \subseteq Columns(raw_data))

\* C18: when a column the enricher reads is absent from the loaded
\* batch, the enrichment fails as a whole: no enriched batch exists or is
\* cached, the run neither filters nor aggregates nor renders, and the
\* failure is reported on the page.
C18_EnrichmentFailsWhole ==
    SchemaFailure =>
        /\ pc = "stopped"
        /\ processed_data = <<>>
        /\ raw_data \notin DOMAIN metrics_cache
        /\ analyzer = "none"
        /\ filtered_data = <<>>
        /\ insights = <<>>
        /\ metrics = <<>>
        /\ analytics = <<>>
        /\ \E i \in 1..Len(errors) : errors[i] = "Error initializing dashboard"

\* the interactive dashboard has loaded two rows without defect rates
C18_Witness ==
    /\ app = "interactive"
    /\ SchemaFailure
    /\ Len(raw_data) = 2
    /\ "Defect_rates" \notin Columns(raw_data)
    /\ pc = "stopped"

\* a run has put its queries to a batch that lacks a column they name
QueryFailure ==
    /\ analyzer = "filtered_data"
    /\ \/ app = "interactive" /\ ~(AdvancedAnalyticsColumns \subseteq Columns(processed_data))
       \/ app = "basic" /\ ~(SupplierAnalysisColumns \subseteq Columns(processed_data))

\* C19: a grouped query that names a group-by or reduction column the
\* registered batch lacks fails with the engine's unknown-column error
\* and returns nothing: no result of that query is on the page, with or
\* without the missing column, and the run ends there.
C19_UnknownColumnFails ==
    QueryFailure =>
        /\ pc = "crashed"
        /\ \E i \in 1..Len(errors) : errors[i] = "BinderException"
        /\ app = "interactive" => analytics = <<>>
        /\ app = "basic" => "supplier_data" \notin DOMAIN analytics

\* the basic dashboard has queried two rows without defect rates, a
\* reduction column of the supplier query
C19_Witness ==
    /\ app = "basic"
    /\ QueryFailure
    /\ Len(filtered_data) = 2
    /\ "Defect_rates" \notin Columns(processed_data)
    /\ "Supplier_name" \in Columns(processed_data)
    /\ DOMAIN analytics = {"revenue_by_product", "location_performance"}

\* a row passes the filters the interactive sidebar shows
PassesSessionFilters(r) ==
    /\ session_state.selected_product_type \in {"All", r.Product_type}
    /\ session_state.selected_location \in {"All", r.Location}
    /\ r.Revenue_generated >= session_state.revenue_range[1]
    /\ r.Revenue_generated <= session_state.revenue_range[2]
    /\ r.Lead_times <= session_state.lead_time_max
    /\ session_state.risk_levels = {} \/ r.Risk_Level \in session_state.risk_levels

\* a row passes the filters the two select boxes of the basic sidebar show
PassesSelectBoxes(r) ==
    /\ widgets.selected_product_type \in {"All", r.Product_type}
    /\ widgets.selected_location \in {"All", r.Location}

\* the rows of the enriched batch that the filters in effect select
SelectedBatch ==
    IF app = "interactive" THEN SelectSeq(processed_data, PassesSessionFilters)
    ELSE SelectSeq(processed_data, PassesSelectBoxes)

\* C20: whatever filter changes and reruns came before, every aggregate
\* and KPI on a finished page was computed in this run from the rows
\* that the filters now in effect select: the page never shows a value
\* computed for an earlier selection.
C20_AggregatesOfCurrentFilters ==
    pc = "done" =>
        /\ filtered_data = SelectedBatch
        /\ analyzer = "filtered_data"
        /\ IF app = "interactive"
           THEN /\ NumericMetrics(metrics) = basic_and_advanced_metrics(SelectedBatch)
                /\ NumericMetrics(insights) = basic_and_advanced_metrics(SelectedBatch)
                /\ analytics \in get_advanced_analytics(SelectedBatch)
           ELSE /\ metrics = BasicMetrics(SelectedBatch)
                /\ analytics \in BasicAnalytics(SelectedBatch)

\* a third run of the basic dashboard shows the rows of one product type
\* at one location, fewer than the second run showed
C20_Witness ==
    /\ app = "basic"
    /\ pc = "done"
    /\ runs = 3
    /\ widgets.selected_product_type # "All"
    /\ widgets.selected_location # "All"
    /\ Len(filtered_data) = 1
    /\ Len(processed_data) = 2
    /\ processed_data[1].Product_type = processed_data[2].Product_type

\* the analyzer a thread has built and queried
Answered(t) == threads[t].at = "answered"

\* C21: analyzers built over different batches, by threads that run in
\* any interleaving, do not interfere: each has a connection of its own
\* with a supply_data of its own, and what a query through an analyzer
\* returns are the aggregates of the batch that analyzer was built on.
C21_AnalyzersIsolated ==
    /\ \A t \in DOMAIN threads : \A u \in DOMAIN threads :
          (t # u /\ threads[t].db_connection # 0) =>
              threads[t].db_connection # threads[u].db_connection
    /\ \A t \in DOMAIN threads :
          threads[t].at \in {"ready", "answered"} =>
              db_connections[threads[t].db_connection] = [supply_data |-> threads[t].df]
    /\ \A t \in DOMAIN threads :
          Answered(t) =>
              /\ threads[t].result.total_revenue =
                     F(SumSeq([i \in 1..Len(threads[t].df) |-> threads[t].df[i].Revenue_generated]))
              /\ threads[t].result.total_orders =
                     SumSeq([i \in 1..Len(threads[t].df) |-> threads[t].df[i].Order_quantities])
              /\ \A i \in 1..Len(threads[t].result.revenue_by_product) :
                     LET g == threads[t].result.revenue_by_product[i]
                     IN  g.total_revenue = F(RevenueOfType(threads[t].df, g.Product_type))

\* two analyzers over different batches are alive and the one built first
\* has answered after the other registered its batch
C21_Witness ==
    /\ Len(db_connections) >= 2
    /\ Answered(1)
    /\ threads[2].at \in {"ready", "answered"}
    /\ threads[1].df # threads[2].df
    /\ threads[1].db_connection < threads[2].db_connection

\* C22: when the CSV file cannot be read, the loader does not raise: it
\* reports the failure and returns a batch without rows, and main stops
\* at 'No data available' with nothing enriched, cached as enriched,
\* filtered, aggregated or rendered.
C22_UnreadableFileStops ==
    (~csv.readable /\ pc # "start") =>
        /\ pc = "stopped"
        /\ raw_data = <<>>
        /\ errors = <<"Error loading data", "No data available">>
        /\ processed_data = <<>>
        /\ DOMAIN metrics_cache = {}
        /\ analyzer = "none"
        /\ db_connections = <<>>
        /\ filtered_data = <<>>
        /\ insights = <<>>
        /\ metrics = <<>>
        /\ analytics = <<>>

\* the interactive script has run a second time on a file it cannot read
C22_Witness ==
    /\ app = "interactive"
    /\ ~csv.readable
    /\ runs = 2
    /\ pc = "stopped"
    /\ load_cache # <<>>

\* the interactive script has loaded a batch with rows and every column
WellFormedLoad ==
    /\ app = "interactive"
    /\ pc # "start"
    /\ csv.readable
    /\ csv.rows # <<>>
    /\ RawColumns \subseteq Columns(csv.rows)

\* C23 (as claimed): whenever the interactive main loads a batch with
\* rows and every required column, its try block completes without an
\* error and the run goes on to the sidebar, the filters and the
\* dashboard layout; 'Error initializing dashboard' is reported only for
\* malformed data.
C23_InitialisationCompletes ==
    WellFormedLoad =>
        /\ pc # "stopped"
        /\ \A i \in 1..Len(errors) : errors[i] # "Error initializing dashboard"

\* the interactive filters have been applied in this run
Filtered == app = "interactive" /\ analyzer = "filtered_data"

\* a row matches every filter of the sidebar, the risk levels included
MatchesEveryFilter(r) ==
    /\ session_state.selected_product_type \in {"All", r.Product_type}
    /\ session_state.selected_location \in {"All", r.Location}
    /\ session_state.revenue_range[1] <= r.Revenue_generated
    /\ r.Revenue_generated <= session_state.revenue_range[2]
    /\ r.Lead_times <= session_state.lead_time_max
    /\ r.Risk_Level \in session_state.risk_levels

\* the positions of the rows of a batch that satisfy a condition, in order
RECURSIVE Positions(_, _, _)
Positions(df, Keep(_), i) ==
    IF i > Len(df) THEN <<>>
    ELSE (IF Keep(df[i]) THEN <<i>> ELSE <<>>) \o Positions(df, Keep, i + 1)

\* C24 (as claimed): a row of the enriched batch is in the result of
\* apply_filters if and only if it matches the product type (or 'All'),
\* the location (or 'All'), the inclusive revenue range, the lead-time
\* maximum and has a risk level among those selected, and the result
\* keeps the input's order.
C24_ConjunctionOfFilters ==
    Filtered =>
        LET at == Positions(processed_data, MatchesEveryFilter, 1)
        IN  filtered_data = [k \in 1..Len(at) |-> processed_data[at[k]]]

\* a row matches every filter that is active: with no risk level
\* selected the risk filter is not
MatchesActiveFilters(r) ==
    /\ session_state.selected_product_type \in {"All", r.Product_type}
    /\ session_state.selected_location \in {"All", r.Location}
    /\ session_state.revenue_range[1] <= r.Revenue_generated
    /\ r.Revenue_generated <= session_state.revenue_range[2]
    /\ r.Lead_times <= session_state.lead_time_max
    /\ session_state.risk_levels # {} => r.Risk_Level \in session_state.risk_levels

\* C24 (amended): as claimed, but the risk levels filter only when at
\* least one is selected; the basic dashboard keeps, in order, the rows
\* that match its product type (or 'All') and its location (or 'All').
C24_ConjunctionOfActiveFilters ==
    /\ Filtered =>
          LET at == Positions(processed_data, MatchesActiveFilters, 1)
          IN  filtered_data = [k \in 1..Len(at) |-> processed_data[at[k]]]
    /\ (app = "basic" /\ analyzer = "filtered_data") =>
          LET at == Positions(processed_data, PassesSelectBoxes, 1)
          IN  filtered_data = [k \in 1..Len(at) |-> processed_data[at[k]]]

\* the revenue slider has been narrowed to the revenue of one of two rows,
\* which is kept
C24_Witness ==
    /\ Filtered
    /\ Len(processed_data) = 2
    /\ session_state.revenue_range[1] = session_state.revenue_range[2]
    /\ Len(filtered_data) = 1
    /\ filtered_data[1] = processed_data[2]

\* every filter of the sidebar is at the value the sidebar starts it with
AtDefaults ==
    /\ session_state.selected_product_type = "All"
    /\ session_state.selected_location = "All"
    /\ session_state.revenue_range = DefaultRevenueRange(processed_data)
    /\ session_state.lead_time_max = DefaultLeadTimeMax(processed_data)
    /\ session_state.risk_levels = AllRiskLevels

\* C25 (as claimed): with every filter at its default, apply_filters
\* returns every row of the enriched batch.
C25_DefaultsDropNothing ==
    (Filtered /\ AtDefaults) => filtered_data = processed_data

\* the rows apply_filters returns when the selection of risk levels is S
\* and the other filters are as they are
RowsFor(S) == Range(apply_filters(processed_data, [session_state EXCEPT !.risk_levels = S]))

\* C26 (as claimed): the rows returned for a selection of risk levels
\* are among the rows returned for any larger selection, the other
\* filters being equal; so an empty selection returns no more rows than
\* any one level.
C26_MonotoneInSelection ==
    Filtered =>
        \A S2 \in SUBSET AllRiskLevels :
            session_state.risk_levels \subseteq S2 => Range(filtered_data) \subseteq RowsFor(S2)

\* C26 (amended): the rows returned for a selection of at least one risk
\* level are among the rows returned for any larger selection; an empty
\* selection switches the filter off and returns the rows of every
\* selection.
C26_MonotoneInNonEmptySelection ==
    Filtered =>
        \A S2 \in SUBSET AllRiskLevels :
            /\ (session_state.risk_levels # {} /\ session_state.risk_levels \subseteq S2) =>
                   Range(filtered_data) \subseteq RowsFor(S2)
            /\ session_state.risk_levels = {} => RowsFor(S2) \subseteq Range(filtered_data)

\* one risk level is selected, and it keeps one of two rows that both have
\* a risk level
C26_Witness ==
    /\ Filtered
    /\ Cardinality(session_state.risk_levels) = 1
    /\ Len(processed_data) = 2
    /\ \A i \in 1..2 : processed_data[i].Risk_Level \in AllRiskLevels
    /\ Len(filtered_data) = 1
    /\ Cardinality(RowsFor(AllRiskLevels)) = 2

\* the product types and locations of the batch the file holds
LoadedProductTypes == {csv.rows[i].Product_type : i \in 1..Len(csv.rows)}
LoadedLocations == {csv.rows[i].Location : i \in 1..Len(csv.rows)}

\* the selections in session state are options of the select boxes
SelectionsAreOptions ==
    (app = "interactive" /\ "selected_product_type" \in DOMAIN session_state) =>
        /\ session_state.selected_product_type \in {"All"} \cup LoadedProductTypes
        /\ session_state.selected_location \in {"All"} \cup LoadedLocations
        /\ \A i \in 1..Len(errors) : errors[i] # "ValueError"

\* C27: after initialisation and after any selections, resets and reruns,
\* selected_product_type is 'All' or a product type of the unfiltered
\* batch and selected_location is 'All' or one of its locations, so the
\* index lookups of the sidebar never fail; and the initialisation at
\* the top of the script leaves every field that exists as it is.
C27_SelectionsStayValid ==
    [][/\ SelectionsAreOptions'
       /\ (app = "interactive" /\ pc = "start" /\ pc' # "start") =>
              /\ {"selected_product_type", "selected_location", "animation_enabled"}
                     \subseteq DOMAIN session_state'
              /\ \A k \in DOMAIN session_state : session_state'[k] = session_state[k]]_vars

\* the sidebar of a third run has looked up a product type and a
\* location that earlier runs selected
C27_Witness ==
    /\ app = "interactive"
    /\ runs = 3
    /\ pc = "render"
    /\ session_state.selected_product_type # "All"
    /\ session_state.selected_location # "All"

\* the sidebar step of a run in which 'Reset All Filters' was clicked
ResetClicked == InteractiveSidebar /\ pc' = "start"

\* C28: whatever was selected before, a click on 'Reset All Filters'
\* leaves the session state with product type and location 'All', the
\* revenue range at the minimum and maximum of the batch, lead_time_max
\* at its largest lead time, all four risk levels and animation_enabled
\* as it was, and the script is run again.
C28_ResetAllFilters ==
    [][ResetClicked =>
          /\ session_state' =
                [animation_enabled |-> session_state.animation_enabled,
                 selected_product_type |-> "All",
                 selected_location |-> "All",
                 revenue_range |-> <<MinOf(Revenues(processed_data)),
                                     MaxOf(Revenues(processed_data))>>,
                 lead_time_max |-> MaxOf(LeadTimes(processed_data)),
                 risk_levels |-> {"Low", "Medium", "High", "Critical"}]
          /\ runs' = runs + 1]_vars

\* the button was clicked in the run after the lead-time slider had been
\* lowered: the next run is about to start
C28_Witness ==
    /\ app = "interactive"
    /\ pc = "start"
    /\ "lead_time_max" \in DOMAIN session_state
    /\ widgets.lead_time_max < session_state.lead_time_max
    /\ session_state.selected_product_type = "All"

\* the basic dashboard has put its queries to a filtered batch with rows
QueriedBatch ==
    /\ app = "basic"
    /\ pc = "done"
    /\ analyzer = "filtered_data"
    /\ filtered_data # <<>>

\* C29: for a batch with rows, get_total_revenue is the sum of the
\* revenue of all rows of the filtered batch, get_total_orders the sum of
\* their order quantities, get_average_lead_time the mean of their lead
\* times, and the total revenue is the sum of total_revenue over the
\* groups of get_revenue_by_product_type.
C29_TotalsOfFilteredBatch ==
    QueriedBatch =>
        LET n == Len(filtered_data)
            groups == analytics.revenue_by_product
        IN  /\ metrics.total_revenue =
                   F(SumSeq([i \in 1..n |-> filtered_data[i].Revenue_generated]))
            /\ metrics.total_orders =
                   SumSeq([i \in 1..n |-> filtered_data[i].Order_quantities])
            /\ metrics.avg_lead_time =
                   FDiv(F(SumSeq([i \in 1..n |-> filtered_data[i].Lead_times])), F(n))
            /\ metrics.total_revenue =
                   FSumSeq([g \in 1..Len(groups) |-> groups[g].total_revenue])

\* two product types with different revenues have been totalled
C29_Witness ==
    /\ QueriedBatch
    /\ Len(analytics.revenue_by_product) = 2
    /\ analytics.revenue_by_product[1].total_revenue #
           analytics.revenue_by_product[2].total_revenue
    /\ metrics.total_revenue # F(0)
    /\ metrics.avg_lead_time # F(0)

\* the animations added so far
Added == Len(executed) + Len(animationQueue)

\* C30 (as claimed): the animation queue runs one animation at a time,
\* in the order they were added, and never stalls: as long as every
\* promise of execute() is fulfilled or rejected, every animation that
\* was added is executed in the end, and isAnimating becomes false once
\* the queue is empty.
C30_QueueNeverStalls ==
    /\ [](Cardinality(promises) <= 1)
    /\ [](\A i \in 1..Len(executed) : executed[i] = i)
    /\ \A n \in 1..MaxAnimations : (Added >= n) ~> (Len(executed) >= n)
    /\ (animationQueue = <<>>) ~> (~isAnimating \/ animationQueue # <<>>)

====
